---- MODULE Spec2Model ----
(***************************************************************************)
(* Hex-grid geometry (asm-lib/src/utils.rs) and the per-tick tile          *)
(* selection step (emergence_lib/src/player_interaction/tile_selection.rs) *)
(***************************************************************************)
EXTENDS Integers, Sequences, FiniteSets, TLC

\* ------------------------------------------------------------------ bounds
\* The number of frames a behaviour runs for.
MaxTicks == 3

\* The number of calls a behaviour of the SelectedTiles methods makes.
MaxOps == 3

\* Geometry calls take coordinates in -MaxCoord..MaxCoord, radii in 0..MaxRadius,
\* translation distances in 1..MaxDistance and rotation steps in -MaxSteps..MaxSteps.
MaxCoord == 2

MaxRadius == 3

MaxDistance == 2

MaxSteps == 7

\* The radius of the map (crate::config, whose value the sources do not show).
MAP_SIZE == 2

\* ---------------------------------------------------------------- geometry
\* Option<T>: None is the empty tuple, Some(x) the one-element tuple.
None == <<>>

Some(x) == <<x>>

unwrap(o) == o[1]

Abs(x) == IF x < 0 THEN -x ELSE x

Range(s) == {s[i] : i \in 1..Len(s)}

Pos(a, b) == [alpha |-> a, beta |-> b]

ORIGIN == Pos(0, 0)

to_cubic(p) == [alpha |-> p.alpha, beta |-> p.beta, gamma |-> (-p.alpha) - p.beta]

\* Faulty variant of dist: the gamma difference is left out.
dist_NoGamma(p, q) == (Abs(p.alpha - q.alpha) + Abs(p.beta - q.beta)) \div 2

dist(p, q) ==
    LET a == to_cubic(p)
        b == to_cubic(q)
    IN (Abs(a.alpha - b.alpha) + Abs(a.beta - b.beta) + Abs(a.gamma - b.gamma)) \div 2

Add(a, b) == Pos(a.alpha + b.alpha, a.beta + b.beta)

Scale(a, c) == Pos(a.alpha * c, a.beta * c)

HexDirection == {"East", "Southeast", "Southwest", "West", "Northwest", "Northeast"}

from_int(choice) ==
    LET int_direction == choice % 6
    IN CASE int_direction = 0 -> "East"
         [] int_direction = 1 -> "Southeast"
         [] int_direction = 2 -> "Southwest"
         [] int_direction = 3 -> "West"
         [] int_direction = 4 -> "Northwest"
         [] int_direction = 5 -> "Northeast"

to_int(d) ==
    CASE d = "East" -> 0
      [] d = "Southeast" -> 1
      [] d = "Southwest" -> 2
      [] d = "West" -> 3
      [] d = "Northwest" -> 4
      [] d = "Northeast" -> 5

offset(d) ==
    CASE d = "East" -> Pos(1, 0)
      [] d = "Southeast" -> Pos(1, -1)
      [] d = "Southwest" -> Pos(0, -1)
      [] d = "West" -> Pos(-1, 0)
      [] d = "Northwest" -> Pos(-1, 1)
      [] d = "Northeast" -> Pos(0, 1)

\* Faulty variant of rotate: the sign of the steps is lost.
rotate_Unsigned(d, steps) == from_int(to_int(d) + (Abs(steps) % 6))

rotate(d, steps) == from_int(to_int(d) + (steps % 6))

translate_unchecked(p, direction, distance) == Add(p, Scale(offset(direction), distance))

\* the inner loop of ring: `n` pushes along one edge
RECURSIVE RingEdge(_, _, _, _)
RingEdge(positions, current_position, current_direction, n) ==
    IF n = 0
    THEN [positions |-> positions, current_position |-> current_position]
    ELSE RingEdge(Append(positions, current_position),
                  translate_unchecked(current_position, current_direction, 1),
                  current_direction, n - 1)

\* the outer loop of ring: `edges` edges left to walk
RECURSIVE RingEdges(_, _, _, _, _)
RingEdges(positions, current_position, current_direction, edges, radius) ==
    IF edges = 0
    THEN positions
    ELSE LET e == RingEdge(positions, current_position, current_direction, radius)
         IN RingEdges(e.positions, e.current_position, rotate(current_direction, 1),
                      edges - 1, radius)

\* Faulty variant of ring: the walk starts out Southeast.
ring_StartsSoutheast(p, radius) ==
    IF radius = 0
    THEN <<p>>
    ELSE RingEdges(<<>>, translate_unchecked(p, "East", radius), "Southeast", 6, radius)

ring(p, radius) ==
    IF radius = 0
    THEN <<p>>
    ELSE RingEdges(<<>>, translate_unchecked(p, "East", radius), "Southwest", 6, radius)

RECURSIVE HexagonFrom(_, _, _)
HexagonFrom(p, i, radius) ==
    IF i > radius THEN <<>> ELSE ring(p, i) \o HexagonFrom(p, i + 1, radius)

\* Faulty variant of hexagon: the range of rings is taken exclusive (0..radius).
hexagon_ExclusiveRange(p, radius) == HexagonFrom(p, 0, radius - 1)

hexagon(p, radius) == HexagonFrom(p, 0, radius)

\* ------------------------------------------------------------ wraparound
MIRROR_DISTANCE == 2 * MAP_SIZE + 1

MIRROR_CENTERS ==
    << Pos(MIRROR_DISTANCE, 0),
       Pos(MIRROR_DISTANCE, -MIRROR_DISTANCE),
       Pos(0, -MIRROR_DISTANCE),
       Pos(-MIRROR_DISTANCE, 0),
       Pos(-MIRROR_DISTANCE, MIRROR_DISTANCE),
       Pos(0, MIRROR_DISTANCE) >>

Sub(a, b) == Pos(a.alpha - b.alpha, a.beta - b.beta)

\* the `for i in MIRROR_CENTERS.iter()` loop of wrap, from index i on
RECURSIVE WrapLoop(_, _, _)
WrapLoop(self, proposal, i) ==
    IF i > Len(MIRROR_CENTERS)
    THEN proposal
    ELSE IF dist(self, MIRROR_CENTERS[i]) <= MAP_SIZE
         THEN Sub(self, MIRROR_CENTERS[i])
         ELSE WrapLoop(self, proposal, i + 1)

wrap(self) ==
    IF dist(self, ORIGIN) <= MAP_SIZE
    THEN self
    ELSE WrapLoop(self, self, 1)

\* Faulty variant of translate: the offset is subtracted.
translate_Backwards(p, direction, distance) ==
    wrap(Sub(p, Scale(offset(direction), distance)))

translate(p, direction, distance) == wrap(Add(p, Scale(offset(direction), distance)))

\* --------------------------------------------------------------- sampling
\* The integers `Uniform::from(low..high)` draws from: the range is half-open.
UniformFrom(low, high) == low..(high - 1)

\* The integers `sample` draws its choice from.
SampleChoices == UniformFrom(0, 5)

\* The selection step takes hexagon, ring and the distance from these
\* definitions; its line interpolation (line_to) is not part of the sources and
\* follows the design's description: one tile per unit step of the straight
\* line, each interpolated point rounded to the nearest hex.

\* Nearest integer to n/d (d > 0), halves away from zero.
RoundDiv(n, d) ==
    IF n >= 0 THEN (2 * n + d) \div (2 * d) ELSE -(((2 * (-n)) + d) \div (2 * d))

\* Cube rounding of the fractional hex (qn/d, rn/d).
HexRound(qn, rn, d) ==
    LET sn == (-qn) - rn
        q == RoundDiv(qn, d)
        r == RoundDiv(rn, d)
        s == RoundDiv(sn, d)
        dq == Abs(q * d - qn)
        dr == Abs(r * d - rn)
        ds == Abs(s * d - sn)
    IN IF dq > dr /\ dq > ds THEN Pos((-r) - s, r)
       ELSE IF dr > ds THEN Pos(q, (-q) - s)
       ELSE Pos(q, r)

\* The tiles of the straight hex line from a to b, one per unit step.
line_to(a, b) ==
    LET n == dist(a, b)
    IN IF n = 0
       THEN <<a>>
       ELSE [i \in 1..(n + 1) |->
                HexRound(a.alpha * (n - (i - 1)) + b.alpha * (i - 1),
                         a.beta * (n - (i - 1)) + b.beta * (i - 1), n)]

\* --------------------------------------------------------- SelectedTiles
NewSelectedTiles == [selected |-> {}, hovered |-> {}]

add_tile(st, tile_pos) == [st EXCEPT !.selected = @ \cup {tile_pos}]

\* Faulty variant of remove_tile: drops the whole selection.
remove_tile_ClearsAll(st, tile_pos) == [st EXCEPT !.selected = {}]

remove_tile(st, tile_pos) == [st EXCEPT !.selected = @ \ {tile_pos}]

\* the `for hex in hex_coord` loop of select_hexagon, from index i on
RECURSIVE SelectHexagonLoop(_, _, _, _)
SelectHexagonLoop(st, hex_coord, i, select) ==
    IF i > Len(hex_coord)
    THEN st
    ELSE SelectHexagonLoop(IF select THEN add_tile(st, hex_coord[i])
                                     ELSE remove_tile(st, hex_coord[i]),
                           hex_coord, i + 1, select)

select_hexagon(st, center, radius, select) ==
    SelectHexagonLoop(st, hexagon(center, radius), 1, select)

clear_selection(st) == [st EXCEPT !.selected = {}]

\* ------------------------------------------ AreaSelection, LineSelection
DefaultAreaSelection == [center |-> None, radius |-> 1, initial_selection |-> None]

area_begin(a, selected_tiles_, cursor_pos) ==
    [a EXCEPT !.center = Some(cursor_pos), !.initial_selection = Some(selected_tiles_)]

\* Faulty variant of area_finish: the radius goes back to its default too.
area_finish_ResetsRadius(a) ==
    [a EXCEPT !.center = None, !.radius = 1, !.initial_selection = None]

area_finish(a) == [a EXCEPT !.center = None, !.initial_selection = None]

DefaultLineSelection == [start |-> None, initial_selection |-> None]

line_begin(l, selected_tiles_, cursor_pos) ==
    [l EXCEPT !.start = Some(cursor_pos), !.initial_selection = Some(selected_tiles_)]

\* Faulty variant of line_finish: forgets to drop the snapshot.
line_finish_KeepsSnapshot(l) == [l EXCEPT !.start = None]

line_finish(l) == [l EXCEPT !.start = None, !.initial_selection = None]

\* draw_line past its `self.start.unwrap()`; select_tiles models the panic of
\* that unwrap before it evaluates this
draw_line(l, end, radius) ==
    LET start == unwrap(l.start)
        line == line_to(start, end)
    IN UNION {Range(hexagon(line[i], radius)) : i \in 1..Len(line)}

\* ---------------------------------------------------------- ActionState
PlayerAction == {"Select", "Deselect", "Multiple", "Area", "Line"}

\* The two actions select_tiles asks `just_released` of.
EdgeActions == {"Select", "Deselect"}

DefaultActionState == [pressed |-> {}, just_released |-> {}]

pressed(a, action) == action \in a.pressed

just_released(a, action) == action \in a.just_released

\* One frame of input: `held` are the actions held down now; an action is just
\* released on the frame it stops being held.
UpdateActions(a, held) ==
    [pressed |-> held, just_released |-> (a.pressed \ held) \cap EdgeActions]

\* ---------------------------------------------------------- select_tiles
\* The resources select_tiles writes, plus whether an unwrap has panicked.
World(st, a, l, p) ==
    [selected_tiles |-> st, area_selection |-> a, line_selection |-> l, panicked |-> p]

simple_area_of(a) == pressed(a, "Area") /\ ~pressed(a, "Multiple") /\ ~pressed(a, "Line")

simple_deselect_of(a) ==
    pressed(a, "Deselect") /\ ~pressed(a, "Area") /\ ~pressed(a, "Multiple") /\ ~pressed(a, "Line")

\* "Cache the starting state": arm the area gesture
ArmArea(a, st, cursor_pos, acts) ==
    IF simple_area_of(acts) /\ a.initial_selection = None
    THEN area_begin(a, st, cursor_pos)
    ELSE a

\* arm the line gesture
ArmLine(l, st, cursor_pos, acts) ==
    IF pressed(acts, "Line") /\ l.initial_selection = None
    THEN line_begin(l, st, cursor_pos)
    ELSE l

\* Faulty variant of DisarmArea: tests `area` where the code tests `simple_area`.
DisarmArea_OnAreaOnly(a, acts) == IF ~pressed(acts, "Area") THEN area_finish(a) ELSE a

\* "Clean up state from area and line selections"
DisarmArea(a, acts) == IF ~simple_area_of(acts) THEN area_finish(a) ELSE a

\* Faulty variant of DisarmLine: the line gesture is never finished.
DisarmLine_Never(l, acts) == l

DisarmLine(l, acts) == IF ~pressed(acts, "Line") THEN line_finish(l) ELSE l

\* "Compute the center and radius": does `area_selection.center.unwrap()` panic?
CenterPanics(a, acts) == pressed(acts, "Area") /\ simple_area_of(acts) /\ a.center = None

ResolveCenter(a, cursor_pos, acts) ==
    IF pressed(acts, "Area")
    THEN IF ~simple_area_of(acts) THEN cursor_pos ELSE unwrap(a.center)
    ELSE cursor_pos

\* Faulty variant of StoreRadius: the live radius is never stored.
StoreRadius_Stale(a, cursor_pos, center, acts) == a

\* the area selection after `area_selection.radius = ...`
StoreRadius(a, cursor_pos, center, acts) ==
    IF pressed(acts, "Area") /\ simple_area_of(acts)
    THEN [a EXCEPT !.radius = dist(cursor_pos, center)]
    ELSE a

ResolveRadius(a, acts) == IF pressed(acts, "Area") THEN a.radius ELSE 0

\* "Record which tiles should have the hovered effect": does draw_line panic?
HoverPanics(l, acts) == ~simple_area_of(acts) /\ pressed(acts, "Line") /\ l.start = None

\* Faulty variant of Hover: previews the filled hexagon of an area gesture.
Hover_FilledHexagon(st, l, cursor_pos, center, radius, acts) ==
    LET cleared == [st EXCEPT !.hovered = {}]
    IN IF simple_area_of(acts)
       THEN [cleared EXCEPT !.hovered = (@ \cup {center}) \cup Range(hexagon(center, radius))]
       ELSE IF pressed(acts, "Line")
       THEN [cleared EXCEPT !.hovered = @ \cup draw_line(l, cursor_pos, radius)]
       ELSE [cleared EXCEPT !.hovered = @ \cup {cursor_pos}]

\* Faulty variant of Hover: the previous hovered set is not cleared.
Hover_KeepsPrevious(st, l, cursor_pos, center, radius, acts) ==
    IF simple_area_of(acts)
    THEN [st EXCEPT !.hovered = (@ \cup {center}) \cup Range(ring(center, radius))]
    ELSE IF pressed(acts, "Line")
    THEN [st EXCEPT !.hovered = @ \cup draw_line(l, cursor_pos, radius)]
    ELSE [st EXCEPT !.hovered = @ \cup {cursor_pos}]

Hover(st, l, cursor_pos, center, radius, acts) ==
    LET cleared == [st EXCEPT !.hovered = {}]
    IN IF simple_area_of(acts)
       THEN [cleared EXCEPT !.hovered = (@ \cup {center}) \cup Range(ring(center, radius))]
       ELSE IF pressed(acts, "Line")
       THEN [cleared EXCEPT !.hovered = @ \cup draw_line(l, cursor_pos, radius)]
       ELSE [cleared EXCEPT !.hovered = @ \cup {cursor_pos}]

\* Faulty variant of Conflict: the guard is missing.
Conflict_Never(acts) == FALSE

\* "Don't attempt to handle conflicting inputs."
Conflict(acts) == pressed(acts, "Select") /\ pressed(acts, "Deselect")

\* Faulty variant of ClearStep: a plain select no longer replaces the selection.
ClearStep_DeselectOnly(st, acts) == IF simple_deselect_of(acts) THEN clear_selection(st) ELSE st

\* Faulty variant of ClearStep: a lone deselect no longer clears.
ClearStep_SelectOnly(st, acts) ==
    IF pressed(acts, "Select") /\ ~pressed(acts, "Multiple") THEN clear_selection(st) ELSE st

\* Faulty variant of ClearStep: select clears even with the multiple modifier.
ClearStep_IgnoresMultiple(st, acts) ==
    IF simple_deselect_of(acts) \/ pressed(acts, "Select") THEN clear_selection(st) ELSE st

\* "Clear the selection"
ClearStep(st, acts) ==
    IF simple_deselect_of(acts) \/ (pressed(acts, "Select") /\ ~pressed(acts, "Multiple"))
    THEN clear_selection(st)
    ELSE st

\* "Actually select tiles", line branch: does draw_line panic?
CommitPanics(l, acts) ==
    /\ pressed(acts, "Line")
    /\ just_released(acts, "Select") \/ just_released(acts, "Deselect")
    /\ l.start = None

\* The point/area branch of the commit.
CommitHexagon(st, center, radius, acts) ==
    LET s1 == IF pressed(acts, "Select")
              THEN select_hexagon(st, center, radius, TRUE)
              ELSE st
    IN IF pressed(acts, "Deselect")
       THEN select_hexagon(s1, center, radius, FALSE)
       ELSE s1

\* Faulty variant of Commit: the line is committed while select is held.
Commit_WhileHeld(st, l, cursor_pos, center, radius, acts) ==
    IF pressed(acts, "Line")
    THEN IF pressed(acts, "Select")
         THEN [st |-> [st EXCEPT !.selected = @ \cup draw_line(l, cursor_pos, radius)],
               l |-> [l EXCEPT !.start = Some(cursor_pos)]]
         ELSE IF just_released(acts, "Deselect")
         THEN [st |-> [st EXCEPT !.selected = @ \ draw_line(l, cursor_pos, radius)],
               l |-> [l EXCEPT !.start = Some(cursor_pos)]]
         ELSE [st |-> st, l |-> l]
    ELSE [st |-> CommitHexagon(st, center, radius, acts), l |-> l]

\* Faulty variant of Commit: the released line replaces the selection.
Commit_LineReplaces(st, l, cursor_pos, center, radius, acts) ==
    IF pressed(acts, "Line")
    THEN IF just_released(acts, "Select")
         THEN [st |-> [st EXCEPT !.selected = draw_line(l, cursor_pos, radius)],
               l |-> [l EXCEPT !.start = Some(cursor_pos)]]
         ELSE IF just_released(acts, "Deselect")
         THEN [st |-> [st EXCEPT !.selected = @ \ draw_line(l, cursor_pos, radius)],
               l |-> [l EXCEPT !.start = Some(cursor_pos)]]
         ELSE [st |-> st, l |-> l]
    ELSE [st |-> CommitHexagon(st, center, radius, acts), l |-> l]

\* Faulty variant of Commit: a released deselect removes the line's ends only.
Commit_DeselectEnds(st, l, cursor_pos, center, radius, acts) ==
    IF pressed(acts, "Line")
    THEN IF just_released(acts, "Select")
         THEN [st |-> [st EXCEPT !.selected = @ \cup draw_line(l, cursor_pos, radius)],
               l |-> [l EXCEPT !.start = Some(cursor_pos)]]
         ELSE IF just_released(acts, "Deselect")
         THEN [st |-> [st EXCEPT !.selected = @ \ {unwrap(l.start), cursor_pos}],
               l |-> [l EXCEPT !.start = Some(cursor_pos)]]
         ELSE [st |-> st, l |-> l]
    ELSE [st |-> CommitHexagon(st, center, radius, acts), l |-> l]

\* Faulty variant of Commit: a commit leaves the line's start where it was.
Commit_KeepsStart(st, l, cursor_pos, center, radius, acts) ==
    IF pressed(acts, "Line")
    THEN IF just_released(acts, "Select")
         THEN [st |-> [st EXCEPT !.selected = @ \cup draw_line(l, cursor_pos, radius)], l |-> l]
         ELSE IF just_released(acts, "Deselect")
         THEN [st |-> [st EXCEPT !.selected = @ \ draw_line(l, cursor_pos, radius)], l |-> l]
         ELSE [st |-> st, l |-> l]
    ELSE [st |-> CommitHexagon(st, center, radius, acts), l |-> l]

\* "Actually select tiles": the selected tiles and the line selection afterwards
Commit(st, l, cursor_pos, center, radius, acts) ==
    IF pressed(acts, "Line")
    THEN IF just_released(acts, "Select")
         THEN [st |-> [st EXCEPT !.selected = @ \cup draw_line(l, cursor_pos, radius)],
               l |-> [l EXCEPT !.start = Some(cursor_pos)]]
         ELSE IF just_released(acts, "Deselect")
         THEN [st |-> [st EXCEPT !.selected = @ \ draw_line(l, cursor_pos, radius)],
               l |-> [l EXCEPT !.start = Some(cursor_pos)]]
         ELSE [st |-> st, l |-> l]
    ELSE [st |-> CommitHexagon(st, center, radius, acts), l |-> l]

\* The body of select_tiles, run when the cursor is over a tile.
select_tiles_body(w, cursor_pos, acts) ==
    LET a1 == ArmArea(w.area_selection, w.selected_tiles, cursor_pos, acts)
        l1 == ArmLine(w.line_selection, w.selected_tiles, cursor_pos, acts)
        a2 == DisarmArea(a1, acts)
        l2 == DisarmLine(l1, acts)
    IN IF CenterPanics(a2, acts)
       THEN World(w.selected_tiles, a2, l2, TRUE)
       ELSE LET center == ResolveCenter(a2, cursor_pos, acts)
                a3 == StoreRadius(a2, cursor_pos, center, acts)
                radius == ResolveRadius(a3, acts)
            IN IF HoverPanics(l2, acts)
               THEN World([w.selected_tiles EXCEPT !.hovered = {}], a3, l2, TRUE)
               ELSE LET st1 == Hover(w.selected_tiles, l2, cursor_pos, center, radius, acts)
                    IN IF Conflict(acts)
                       THEN World(st1, a3, l2, FALSE)
                       ELSE LET st2 == ClearStep(st1, acts)
                            IN IF CommitPanics(l2, acts)
                               THEN World(st2, a3, l2, TRUE)
                               ELSE LET c == Commit(st2, l2, cursor_pos, center, radius, acts)
                                    IN World(c.st, a3, c.l, FALSE)

\* Faulty variant of select_tiles: with no tile under the cursor the preview is dropped.
select_tiles_NoCursorClearsHover(w, cur, acts) ==
    IF cur = None
    THEN [w EXCEPT !.selected_tiles.hovered = {}]
    ELSE select_tiles_body(w, unwrap(cur), acts)

\* One run of the system on world w with the frame's cursor and action state.
select_tiles(w, cur, acts) ==
    IF cur = None
    THEN w
    ELSE select_tiles_body(w, unwrap(cur), acts)

\* ------------------------------------------------------------ the system
\* selected_tiles, area_selection, line_selection: the three resources of the
\* plugin; actions, cursor: the frame's input resources; panicked: an unwrap of
\* None has ended the program; before: the resources as the last run of
\* select_tiles found them; ticks: frames so far; history: the calls made
\* directly on selected_tiles, each with the selection it was made on.
\* area_ticked: select_tiles has run with simple_area; line_commits: the line
\* commits made in the current hold of line; geo: the last geometry call, with
\* its arguments and its result.
VARIABLES selected_tiles, area_selection, line_selection, actions, cursor, panicked,
          before, ticks, history, area_ticked, line_commits, geo

vars == <<selected_tiles, area_selection, line_selection, actions, cursor, panicked,
          before, ticks, history, area_ticked, line_commits, geo>>

NoCall == [op |-> "none", args |-> <<>>, result |-> <<>>]

\* The tiles the cursor can resolve to: two tiles at distance 2 on one row.
CursorTiles == {Pos(0, 0), Pos(2, 0)}

CursorValues == {None} \cup {Some(t) : t \in CursorTiles}

Init ==
    /\ selected_tiles = NewSelectedTiles
    /\ area_selection = DefaultAreaSelection
    /\ line_selection = DefaultLineSelection
    /\ actions = DefaultActionState
    /\ cursor = None
    /\ panicked = FALSE
    /\ before = World(NewSelectedTiles, DefaultAreaSelection, DefaultLineSelection, FALSE)
    /\ ticks = 0
    /\ history = <<>>
    /\ area_ticked = FALSE
    /\ line_commits = 0
    /\ geo = NoCall

\* One frame: the input collaborators refresh the action state and the cursor,
\* then select_tiles runs.
Tick(held, cur) ==
    /\ ~panicked
    /\ ticks < MaxTicks
    /\ ticks' = ticks + 1
    /\ UNCHANGED <<history, geo>>
    /\ area_ticked' = (area_ticked \/ (cur # None /\ simple_area_of(UpdateActions(actions, held))))
    /\ line_commits' =
           (LET acts == UpdateActions(actions, held)
            IN IF cur = None THEN line_commits
               ELSE IF ~pressed(acts, "Line") THEN 0
               ELSE IF just_released(acts, "Select") \/ just_released(acts, "Deselect")
               THEN line_commits + 1
               ELSE line_commits)
    /\ actions' = UpdateActions(actions, held)
    /\ cursor' = cur
    /\ before' = World(selected_tiles, area_selection, line_selection, panicked)
    /\ \E w \in {select_tiles(World(selected_tiles, area_selection, line_selection, panicked),
                              cur, UpdateActions(actions, held))} :
          /\ selected_tiles' = w.selected_tiles
          /\ area_selection' = w.area_selection
          /\ line_selection' = w.line_selection
          /\ panicked' = w.panicked

Next == \E held \in SUBSET PlayerAction, cur \in CursorValues : Tick(held, cur)

Spec == Init /\ [][Next]_vars

\* ------------------------------------- SelectedTiles driven method by method
\* The tiles the unit tests use.
TestTiles == {Pos(0, 0), Pos(1, 1), Pos(2, 2)}

Call(op, tile_pos) == [op |-> op, tile |-> tile_pos, pre |-> selected_tiles.selected]

AddTile(tile_pos) ==
    /\ Len(history) < MaxOps
    /\ selected_tiles' = add_tile(selected_tiles, tile_pos)
    /\ history' = Append(history, Call("add_tile", tile_pos))
    /\ UNCHANGED <<area_selection, line_selection, actions, cursor, panicked, before, ticks,
                   area_ticked, line_commits, geo>>

RemoveTile(tile_pos) ==
    /\ Len(history) < MaxOps
    /\ selected_tiles' = remove_tile(selected_tiles, tile_pos)
    /\ history' = Append(history, Call("remove_tile", tile_pos))
    /\ UNCHANGED <<area_selection, line_selection, actions, cursor, panicked, before, ticks,
                   area_ticked, line_commits, geo>>

ClearSelection ==
    /\ Len(history) < MaxOps
    /\ selected_tiles' = clear_selection(selected_tiles)
    /\ history' = Append(history, Call("clear_selection", ORIGIN))
    /\ UNCHANGED <<area_selection, line_selection, actions, cursor, panicked, before, ticks,
                   area_ticked, line_commits, geo>>

SetNext ==
    \/ \E t \in TestTiles : AddTile(t)
    \/ \E t \in TestTiles : RemoveTile(t)
    \/ ClearSelection

SetSpec == Init /\ [][SetNext]_vars

\* ------------------------------------------- the geometry, call by call
Coords == (-MaxCoord)..MaxCoord

Positions == {Pos(a, b) : a \in Coords, b \in Coords}

\* The positions of the map: those within MAP_SIZE of the origin.
MapPositions ==
    {p \in {Pos(a, b) : a \in (-MAP_SIZE)..MAP_SIZE, b \in (-MAP_SIZE)..MAP_SIZE} :
        dist(p, ORIGIN) <= MAP_SIZE}

Steps == (-MaxSteps)..MaxSteps

selection == <<selected_tiles, area_selection, line_selection, actions, cursor, panicked,
               before, ticks, history, area_ticked, line_commits>>

GeoCall(op, args, result) ==
    /\ geo' = [op |-> op, args |-> args, result |-> result]
    /\ UNCHANGED selection

\* The functions are pure: a behaviour makes one call.
TranslateCall ==
    /\ geo = NoCall
    /\ \E p \in MapPositions, d \in HexDirection, k \in 1..MaxDistance :
          GeoCall("translate", <<p, d, k>>, translate(p, d, k))

WrapCall ==
    /\ geo = NoCall
    /\ \E p \in Positions : GeoCall("wrap", <<p>>, wrap(p))

RingCall ==
    /\ geo = NoCall
    /\ \E c \in Positions, r \in 0..MaxRadius : GeoCall("ring", <<c, r>>, ring(c, r))

HexagonCall ==
    /\ geo = NoCall
    /\ \E c \in Positions, r \in 0..MaxRadius : GeoCall("hexagon", <<c, r>>, hexagon(c, r))

SampleCall ==
    /\ geo = NoCall
    /\ \E choice \in SampleChoices : GeoCall("sample", <<choice>>, from_int(choice))

RotateCall ==
    /\ geo = NoCall
    /\ \E d \in HexDirection, a \in Steps, b \in Steps :
          GeoCall("rotate", <<d, a, b>>,
                  [once |-> rotate(d, a), twice |-> rotate(rotate(d, a), b),
                   sum |-> rotate(d, a + b), full |-> rotate(d, 6)])

DistCall ==
    /\ geo = NoCall
    /\ \E a \in Positions, b \in Positions, c \in Positions :
          GeoCall("dist", <<a, b, c>>,
                  [ab |-> dist(a, b), ba |-> dist(b, a), bc |-> dist(b, c), ac |-> dist(a, c)])

GeoNext ==
    \/ TranslateCall
    \/ WrapCall
    \/ RingCall
    \/ HexagonCall
    \/ SampleCall
    \/ RotateCall
    \/ DistCall

GeoSpec == Init /\ [][GeoNext]_vars

\* ------------------------------------------------- vocabulary of the claims
\* The state is the one a run of select_tiles has just left: `before` is what
\* the run started from, `actions` and `cursor` are what it sampled.
TickRan == ticks > 0

Held(action) == pressed(actions, action)

Released(action) == just_released(actions, action)

CursorPresent == TickRan /\ cursor # None

CursorTile == unwrap(cursor)

Selected == selected_tiles.selected

SelectedBefore == before.selected_tiles.selected

SimpleArea == Held("Area") /\ ~Held("Multiple") /\ ~Held("Line")

AreaArmed(a) == a.center # None

LineArmed(l) == l.start # None

AreaUnarmed(a) == a.center = None /\ a.initial_selection = None

LineUnarmed(l) == l.start = None /\ l.initial_selection = None

\* The tiles within hex distance r of c, and those at exactly r, by the metric.
HexDisk(c, r) ==
    {Pos(c.alpha + da, c.beta + db) : <<da, db>> \in
        {d \in (-r..r) \X (-r..r) : dist(ORIGIN, Pos(d[1], d[2])) <= r}}

HexCircle(c, r) == {p \in HexDisk(c, r) : dist(c, p) = r}

\* The start a line gesture holds during the run: the one it was armed with,
\* or the cursor tile when the run arms it.
ArmedStart ==
    IF LineArmed(before.line_selection) THEN unwrap(before.line_selection.start) ELSE CursorTile

\* The radius a run in line mode resolves.
LineRadius == IF Held("Area") THEN before.area_selection.radius ELSE 0

ThickLine(start, end, r) == UNION {HexDisk(t, r) : t \in Range(line_to(start, end))}

\* -------------------------------------------------------------------- C1
\* C1 as claimed: on a line-mode tick (line held, cursor present) where neither
\* select nor deselect was just released, selected is the same as before.
C1_AsClaimed ==
    (CursorPresent /\ Held("Line") /\ ~Released("Select") /\ ~Released("Deselect"))
        => Selected = SelectedBefore

\* C1 amended: on a line-mode tick selected changes only if select or deselect
\* was just released, or select is held without multiple and without deselect,
\* and then the tick leaves selected empty.
C1_LineModeChanges ==
    (CursorPresent /\ Held("Line") /\ Selected # SelectedBefore)
        => \/ Released("Select")
           \/ Released("Deselect")
           \/ (Held("Select") /\ ~Held("Multiple") /\ ~Held("Deselect") /\ Selected = {})

C1_Witness ==
    /\ CursorPresent /\ Held("Line") /\ Held("Select") /\ Held("Multiple")
    /\ ~Held("Deselect") /\ ~Released("Deselect")
    /\ LineArmed(before.line_selection)
    /\ SelectedBefore # {}
    /\ Selected = SelectedBefore

\* -------------------------------------------------------------------- C2
\* C2 as claimed: after any tick whose trigger is false the gesture is unarmed,
\* cursor present or not.
C2_AsClaimed ==
    TickRan => /\ ~SimpleArea => AreaUnarmed(area_selection)
               /\ ~Held("Line") => LineUnarmed(line_selection)

\* C2 amended: after any tick with the cursor present whose trigger is false,
\* the gesture's anchor/start and snapshot are both absent.
C2_DisarmedWhenTriggerFalse ==
    CursorPresent => /\ ~SimpleArea => AreaUnarmed(area_selection)
                     /\ ~Held("Line") => LineUnarmed(line_selection)

C2_Witness ==
    /\ CursorPresent /\ ~SimpleArea /\ Held("Area")
    /\ AreaArmed(before.area_selection)
    /\ AreaUnarmed(area_selection)

\* -------------------------------------------------------------------- C3
\* C3: a tick with no cursor tile changes nothing: selected, hovered, the area
\* gesture and the line gesture are as before, whatever the signals.
C3_AbsentCursorNoOp ==
    (TickRan /\ cursor = None)
        => /\ selected_tiles = before.selected_tiles
           /\ area_selection = before.area_selection
           /\ line_selection = before.line_selection

C3_Witness ==
    /\ TickRan /\ cursor = None
    /\ Held("Select") /\ Held("Line")
    /\ Selected # {}
    /\ selected_tiles.hovered # {}
    /\ AreaArmed(area_selection)

\* -------------------------------------------------------------------- C4
\* What the run would have left hovered had `dropped` not been held.
HoveredWithout(dropped) ==
    select_tiles(before, cursor,
                 [actions EXCEPT !.pressed = @ \ dropped]).selected_tiles.hovered

\* C4: with select and deselect both held (cursor present) selected is
\* unchanged, and hovered is what the tick computes without the conflict.
C4_ConflictKeepsSelection ==
    (CursorPresent /\ Held("Select") /\ Held("Deselect"))
        => /\ Selected = SelectedBefore
           /\ selected_tiles.hovered = HoveredWithout({"Select"})
           /\ selected_tiles.hovered = HoveredWithout({"Deselect"})
           /\ selected_tiles.hovered = HoveredWithout({"Select", "Deselect"})

C4_Witness ==
    /\ CursorPresent /\ Held("Select") /\ Held("Deselect")
    /\ SelectedBefore # {}
    /\ CursorTile \notin SelectedBefore
    /\ selected_tiles.hovered # before.selected_tiles.hovered

\* -------------------------------------------------------------------- C5
\* The center and radius a run resolves outside line mode.
PointCenter == IF SimpleArea THEN unwrap(area_selection.center) ELSE CursorTile

PointRadius == IF Held("Area") THEN area_selection.radius ELSE 0

\* C5: select held, deselect, multiple and line not held (cursor present):
\* selected is exactly the hexagon of the tick's center and radius.
C5_PlainSelectReplaces ==
    (CursorPresent /\ Held("Select") /\ ~Held("Deselect") /\ ~Held("Multiple") /\ ~Held("Line"))
        => Selected = HexDisk(PointCenter, PointRadius)

C5_Witness ==
    /\ CursorPresent /\ Held("Select") /\ ~Held("Deselect") /\ ~Held("Multiple") /\ ~Held("Line")
    /\ SelectedBefore # {}
    /\ ~(SelectedBefore \subseteq Selected)
    /\ Cardinality(Selected) > 1

\* -------------------------------------------------------------------- C6
\* C6: on a simple-area tick (cursor present) the anchor is the one the
\* gesture was armed with (the cursor tile when the tick arms it), the radius
\* is the distance from anchor to cursor, and hovered is the anchor plus the
\* ring at that radius.
C6_AreaAnchorRadiusHover ==
    (CursorPresent /\ SimpleArea)
        => /\ area_selection.center =
                  IF AreaArmed(before.area_selection)
                  THEN before.area_selection.center
                  ELSE Some(CursorTile)
           /\ area_selection.radius = dist(unwrap(area_selection.center), CursorTile)
           /\ selected_tiles.hovered =
                  {unwrap(area_selection.center)}
                      \cup HexCircle(unwrap(area_selection.center), area_selection.radius)

C6_Witness ==
    /\ CursorPresent /\ SimpleArea
    /\ AreaArmed(before.area_selection)
    /\ area_selection.center # cursor
    /\ area_selection.radius = 2
    /\ Cardinality(selected_tiles.hovered) = 13
    /\ selected_tiles.hovered # HexDisk(unwrap(area_selection.center), 2)

\* -------------------------------------------------------------------- C7
\* C7: line held, select just released (cursor present): selected is the
\* selection before the tick plus the thick line from the armed start to the
\* cursor tile.
C7_LineSelectAdds ==
    (CursorPresent /\ Held("Line") /\ Released("Select"))
        => Selected = SelectedBefore \cup ThickLine(ArmedStart, CursorTile, LineRadius)

C7_Witness ==
    /\ CursorPresent /\ Held("Line") /\ Released("Select")
    /\ LineArmed(before.line_selection)
    /\ ArmedStart # CursorTile
    /\ SelectedBefore # {}
    /\ ~(SelectedBefore \subseteq ThickLine(ArmedStart, CursorTile, LineRadius))
    /\ ~(ThickLine(ArmedStart, CursorTile, LineRadius) \subseteq SelectedBefore)
    /\ SelectedBefore \subseteq Selected

\* -------------------------------------------------------------------- C8
\* C8: line held, deselect just released, select neither held nor just
\* released (cursor present): selected is the selection before the tick minus
\* the thick line from the armed start to the cursor tile.
C8_LineDeselectRemoves ==
    (CursorPresent /\ Held("Line") /\ Released("Deselect")
        /\ ~Held("Select") /\ ~Released("Select"))
        => Selected = SelectedBefore \ ThickLine(ArmedStart, CursorTile, LineRadius)

C8_Witness ==
    /\ CursorPresent /\ Held("Line") /\ Released("Deselect")
    /\ ~Held("Select") /\ ~Released("Select")
    /\ LineArmed(before.line_selection)
    /\ ArmedStart # CursorTile
    /\ SelectedBefore \cap ThickLine(ArmedStart, CursorTile, LineRadius) # {}
    /\ Selected # {}
    /\ Selected # SelectedBefore

\* -------------------------------------------------------------------- C9
\* C9: no sequence of ticks makes select_tiles panic: the area anchor and the
\* line start are present whenever the step unwraps them.
C9_NoPanic == ~panicked

C9_Witness ==
    /\ ticks = MaxTicks /\ ~panicked
    /\ CursorPresent /\ Held("Line") /\ Released("Select")
    /\ ~LineArmed(before.line_selection)
    /\ AreaArmed(before.area_selection)
    /\ line_selection.start = cursor

\* ------------------------------------------------------------------- C10
\* The selection a call left behind.
PostOf(i) == IF i < Len(history) THEN history[i + 1].pre ELSE Selected

\* C10: SelectedTiles is a set under add_tile, remove_tile and clear_selection:
\* new is empty; add_tile(t) makes t a member; adding a member keeps the size;
\* remove_tile(t) right after add_tile(t) on a set without t restores that
\* set; clear_selection leaves it empty.
C10_SetLaws ==
    /\ (ticks = 0 /\ history = <<>>) => (Selected = {} /\ selected_tiles.hovered = {})
    /\ \A i \in 1..Len(history) :
          LET c == history[i]
          IN /\ c.op = "add_tile" => c.tile \in PostOf(i)
             /\ (c.op = "add_tile" /\ c.tile \in c.pre)
                    => Cardinality(PostOf(i)) = Cardinality(c.pre)
             /\ (c.op = "add_tile" /\ c.tile \notin c.pre)
                    => Cardinality(PostOf(i)) = Cardinality(c.pre) + 1
             /\ (/\ c.op = "add_tile" /\ c.tile \notin c.pre /\ i < Len(history)
                 /\ history[i + 1].op = "remove_tile" /\ history[i + 1].tile = c.tile)
                    => PostOf(i + 1) = c.pre
             /\ c.op = "clear_selection" => PostOf(i) = {}

C10_Witness ==
    /\ Len(history) = 3
    /\ history[1].op = "add_tile"
    /\ history[2].op = "add_tile" /\ history[2].tile \notin history[2].pre
    /\ history[3].op = "remove_tile" /\ history[3].tile = history[2].tile
    /\ Selected = history[2].pre
    /\ Selected # {}

\* ------------------------------------------------------------------- C11
GeoArg(i) == geo.args[i]

\* C11 as claimed: a wrapped translation by one step from a position of the
\* map lands within MAP_SIZE of the origin.
C11_AsClaimed ==
    (geo.op = "translate" /\ GeoArg(3) = 1) => dist(geo.result, ORIGIN) <= MAP_SIZE

\* ------------------------------------------------------------------- C12
\* C12: ring(c, r) lists exactly the positions at distance r from c, each
\* once: <<c>> for r = 0, 6*r positions for r > 0, each adjacent to the next
\* and the last to the first.
C12_RingExact ==
    geo.op = "ring"
        => LET c == GeoArg(1)
               r == GeoArg(2)
               s == geo.result
           IN /\ r = 0 => s = <<c>>
              /\ r > 0 => Len(s) = 6 * r
              /\ Range(s) = HexCircle(c, r)
              /\ Cardinality(Range(s)) = Len(s)
              /\ \A i \in 1..(Len(s) - 1) : dist(s[i], s[i + 1]) = 1
              /\ r > 0 => dist(s[Len(s)], s[1]) = 1

C12_Witness ==
    /\ geo.op = "ring"
    /\ GeoArg(1) # ORIGIN
    /\ GeoArg(2) = MaxRadius
    /\ Len(geo.result) = 6 * MaxRadius

\* ------------------------------------------------------------------- C13
\* C13: hexagon(c, r) lists exactly the positions within distance r of c, each
\* once, 1 + 3*r*(r+1) of them.
C13_HexagonExact ==
    geo.op = "hexagon"
        => LET c == GeoArg(1)
               r == GeoArg(2)
               s == geo.result
           IN /\ Range(s) = HexDisk(c, r)
              /\ Cardinality(Range(s)) = Len(s)
              /\ Len(s) = 1 + 3 * r * (r + 1)

C13_Witness ==
    /\ geo.op = "hexagon"
    /\ GeoArg(1) # ORIGIN
    /\ GeoArg(2) = MaxRadius
    /\ Len(geo.result) = 1 + 3 * MaxRadius * (MaxRadius + 1)

\* ------------------------------------------------------------------- C14
\* C14 as claimed: sampling a direction draws its integer from [0,6), so each
\* of the six directions is a possible result.
C14_AsClaimed ==
    geo.op = "sample"
        => /\ SampleChoices = 0..5
           /\ {from_int(choice) : choice \in SampleChoices} = HexDirection

\* ------------------------------------------------------------------- C15
\* The six directions in clockwise order, and a direction's place in it from 0.
Clockwise == <<"East", "Southeast", "Southwest", "West", "Northwest", "Northeast">>

IndexOf(d) == (CHOOSE i \in 1..6 : Clockwise[i] = d) - 1

\* C15: rotate(d, a) is the direction of index (index(d) + a) mod 6 for
\* a of either sign, rotate(d, 6) = d, and rotate(rotate(d, a), b) = rotate(d, a + b).
C15_RotateGroup ==
    geo.op = "rotate"
        => LET d == GeoArg(1)
               a == GeoArg(2)
               r == geo.result
           IN /\ r.once \in HexDirection
              /\ IndexOf(r.once) = (IndexOf(d) + a) % 6
              /\ r.full = d
              /\ r.twice = r.sum

C15_Witness ==
    /\ geo.op = "rotate"
    /\ GeoArg(2) < -6
    /\ GeoArg(3) > 0
    /\ GeoArg(2) + GeoArg(3) < 0
    /\ geo.result.once # GeoArg(1)
    /\ geo.result.twice # geo.result.once

\* ------------------------------------------------------------------- C16
\* C16: dist is a metric: symmetric, zero exactly between equal positions,
\* and it satisfies the triangle inequality.
C16_DistMetric ==
    geo.op = "dist"
        => LET a == GeoArg(1)
               b == GeoArg(2)
               r == geo.result
           IN /\ r.ab = r.ba
              /\ (r.ab = 0) <=> (a = b)
              /\ r.ac <= r.ab + r.bc

C16_Witness ==
    /\ geo.op = "dist"
    /\ GeoArg(1) # GeoArg(2) /\ GeoArg(2) # GeoArg(3) /\ GeoArg(1) # GeoArg(3)
    /\ geo.result.ab = 1
    /\ geo.result.ac < geo.result.ab + geo.result.bc
    /\ geo.result.ac = 2 * MaxCoord

\* ------------------------------------------------------------------- C17
\* C17: deselect held and none of select, area, multiple, line (cursor
\* present): selected is empty after the tick.
C17_DeselectAloneClears ==
    (CursorPresent /\ actions.pressed = {"Deselect"}) => Selected = {}

C17_Witness ==
    /\ CursorPresent /\ actions.pressed = {"Deselect"}
    /\ Cardinality(SelectedBefore) > 1
    /\ CursorTile \notin SelectedBefore
    /\ Selected = {}

\* ------------------------------------------------------------------- C18
\* C18: select and multiple held, deselect and line not (cursor present):
\* selected is the selection before the tick plus the hexagon around the
\* cursor tile at the tick's radius; nothing selected is removed.
C18_MultipleSelectAdds ==
    (CursorPresent /\ Held("Select") /\ Held("Multiple") /\ ~Held("Deselect") /\ ~Held("Line"))
        => /\ Selected = SelectedBefore
                   \cup HexDisk(CursorTile,
                                IF Held("Area") THEN before.area_selection.radius ELSE 0)
           /\ SelectedBefore \subseteq Selected

C18_Witness ==
    /\ CursorPresent /\ Held("Select") /\ Held("Multiple") /\ ~Held("Deselect") /\ ~Held("Line")
    /\ Held("Area")
    /\ before.area_selection.radius = 2
    /\ SelectedBefore # {}
    /\ ~(SelectedBefore \subseteq HexDisk(CursorTile, 2))
    /\ Selected # SelectedBefore

\* ------------------------------------------------------------------- C19
\* The area selection, center and radius the run resolves, step by step.
TickArea ==
    DisarmArea(ArmArea(before.area_selection, before.selected_tiles, CursorTile, actions),
               actions)

TickCenter == ResolveCenter(TickArea, CursorTile, actions)

TickRadius == ResolveRadius(StoreRadius(TickArea, CursorTile, TickCenter, actions), actions)

\* C19: without area the center is the cursor tile and the radius 0; with area
\* and multiple or line the center is the cursor tile and the radius the stored
\* one (seen in the line preview); the stored radius is 1 until a simple-area
\* tick has run and changes on simple-area ticks only.
C19_CenterRadius ==
    /\ ~area_ticked => area_selection.radius = 1
    /\ (TickRan /\ ~(cursor # None /\ SimpleArea))
           => area_selection.radius = before.area_selection.radius
    /\ (CursorPresent /\ ~Held("Area"))
           => (TickCenter = CursorTile /\ TickRadius = 0)
    /\ (CursorPresent /\ Held("Area") /\ ~SimpleArea)
           => (TickCenter = CursorTile /\ TickRadius = before.area_selection.radius)
    /\ (CursorPresent /\ Held("Line"))
           => selected_tiles.hovered =
                  ThickLine(ArmedStart, CursorTile,
                            IF Held("Area") THEN before.area_selection.radius ELSE 0)

C19_Witness ==
    /\ CursorPresent /\ Held("Area") /\ Held("Line")
    /\ area_ticked
    /\ AreaArmed(before.area_selection)
    /\ AreaUnarmed(area_selection)
    /\ area_selection.radius = 2
    /\ selected_tiles.hovered = ThickLine(ArmedStart, CursorTile, 2)

\* ------------------------------------------------------------------- C20
\* C20: after a line commit (select or deselect just released with line held,
\* cursor present) the line gesture is still armed, with the snapshot it had,
\* and its start is the cursor tile of the commit; the commit covers the line
\* from the start the gesture held before it, which after an earlier commit of
\* the hold is that commit's cursor tile.
C20_CommitMovesStart ==
    /\ (CursorPresent /\ Held("Line") /\ (Released("Select") \/ Released("Deselect")))
        => /\ line_selection.start = cursor
           /\ line_selection.initial_selection # None
           /\ LineArmed(before.line_selection)
                  => line_selection.initial_selection = before.line_selection.initial_selection
           /\ Released("Select")
                  => ThickLine(ArmedStart, CursorTile, LineRadius) \subseteq Selected
           /\ ~Released("Select")
                  => ThickLine(ArmedStart, CursorTile, LineRadius) \cap Selected = {}
    /\ line_commits > 0 => LineArmed(line_selection)

C20_Witness ==
    /\ CursorPresent /\ Held("Line") /\ Released("Select")
    /\ line_commits = 2
    /\ LineArmed(before.line_selection)
    /\ before.line_selection.start # cursor
    /\ line_selection.start = cursor
    /\ ThickLine(unwrap(before.line_selection.start), CursorTile, LineRadius) \subseteq Selected

\* ------------------------------------------------------------------- C21
\* C21: on a tick with neither simple_area nor line (cursor present), hovered
\* is exactly {cursor tile}, whatever it held before and whatever select,
\* deselect and multiple are.
C21_PointHoverIsCursor ==
    (CursorPresent /\ ~SimpleArea /\ ~Held("Line")) => selected_tiles.hovered = {CursorTile}

C21_Witness ==
    /\ CursorPresent /\ ~SimpleArea /\ ~Held("Line")
    /\ Held("Select") /\ Held("Deselect") /\ Held("Multiple")
    /\ Cardinality(before.selected_tiles.hovered) > 1
    /\ CursorTile \notin before.selected_tiles.hovered
    /\ selected_tiles.hovered = {CursorTile}

\* ------------------------------------------------------------------- C22
InMap(p) == dist(p, ORIGIN) <= MAP_SIZE

\* C22: wrap returns a position within MAP_SIZE of the origin unchanged, so a
\* translation whose unwrapped target is within MAP_SIZE of the origin returns
\* that target.
C22_WrapKeepsInMap ==
    /\ (geo.op = "wrap" /\ InMap(GeoArg(1))) => geo.result = GeoArg(1)
    /\ (geo.op = "translate" /\ InMap(translate_unchecked(GeoArg(1), GeoArg(2), GeoArg(3))))
           => geo.result = translate_unchecked(GeoArg(1), GeoArg(2), GeoArg(3))

C22_Witness ==
    /\ geo.op = "translate"
    /\ GeoArg(1) # ORIGIN
    /\ GeoArg(3) > 1
    /\ dist(GeoArg(1), ORIGIN) = MAP_SIZE
    /\ dist(geo.result, ORIGIN) = MAP_SIZE
    /\ geo.result = Pos(GeoArg(1).alpha + GeoArg(3) * offset(GeoArg(2)).alpha,
                        GeoArg(1).beta + GeoArg(3) * offset(GeoArg(2)).beta)

\* ------------------------------------------------------------------- C23
\* C23: after every tick with the cursor present, hovered contains the cursor
\* tile, in simple-area, line and point mode alike.
C23_CursorHovered == CursorPresent => CursorTile \in selected_tiles.hovered

C23_Witness ==
    /\ CursorPresent /\ SimpleArea
    /\ AreaArmed(before.area_selection)
    /\ unwrap(area_selection.center) # CursorTile
    /\ before.area_selection.radius # area_selection.radius
    /\ CursorTile \in selected_tiles.hovered
    /\ Cardinality(selected_tiles.hovered) > 2

\* ------------------------------------------------------------------- C24
\* C24: in every reachable state the area and the line gesture are not both
\* armed, and each gesture's anchor/start is present exactly when its snapshot
\* is, ticks with an absent cursor included.
C24_GesturesExclusive ==
    /\ ~(AreaArmed(area_selection) /\ LineArmed(line_selection))
    /\ (area_selection.center # None) <=> (area_selection.initial_selection # None)
    /\ (line_selection.start # None) <=> (line_selection.initial_selection # None)

C24_Witness ==
    /\ TickRan /\ cursor = None
    /\ AreaArmed(area_selection)
    /\ area_selection.initial_selection # None
    /\ LineUnarmed(line_selection)
    /\ Held("Line") /\ ~Held("Area")

====
